---- MODULE Spec2Model ----
(***************************************************************************)
(* A model of target-position (src/src/index.ts): targetPosition resolves  *)
(* a target name to a position through the Sesame web service, setMirror   *)
(* replaces the base URL of the service.                                   *)
(*                                                                         *)
(* Strings are sequences of tokens.  Where the code looks inside a string  *)
(* (trim, toLowerCase, encodeURIComponent, parseFloat) the tokens are its  *)
(* characters; the fixed pieces of a message or of a URL are one token.    *)
(* An optional value is a sequence of length 0 (absent) or 1.              *)
(***************************************************************************)
EXTENDS Integers, Sequences, FiniteSets, TLC

VARIABLES BASE_URL, calls

vars == <<BASE_URL, calls>>

(***************************************************************************)
(* Bounds of the model.                                                    *)
(***************************************************************************)
\* Number of targetPosition calls that may run concurrently (Spec).
NumCalls == 2
\* Longest target name, in characters (SpecArgs).
MaxNameLen == 2
\* Longest resolver list (SpecArgs).
MaxResolvers == 3
\* Most Resolver entries in a reply (SpecReply).
MaxEntries == 2

Calls == 1..NumCalls

(***************************************************************************)
(* Generic helpers on sequences.                                           *)
(***************************************************************************)
RECURSIVE Flatten(_)
Flatten(ss) == IF ss = <<>> THEN <<>> ELSE Head(ss) \o Flatten(Tail(ss))

SeqsUpTo(S, n) == UNION {[1..k -> S] : k \in 0..n}

Range(s) == {s[i] : i \in DOMAIN s}

(***************************************************************************)
(* Strings of the program.                                                 *)
(***************************************************************************)
Str(s) == <<s>>

UpperCaseLetters ==
  <<"A","B","C","D","E","F","G","H","I","J","K","L","M",
    "N","O","P","Q","R","S","T","U","V","W","X","Y","Z">>

LowerCaseLetters ==
  <<"a","b","c","d","e","f","g","h","i","j","k","l","m",
    "n","o","p","q","r","s","t","u","v","w","x","y","z">>

\* String.prototype.toLowerCase, on one character.
LowerChar(ch) ==
  IF \E i \in DOMAIN UpperCaseLetters : UpperCaseLetters[i] = ch
    THEN LowerCaseLetters[CHOOSE i \in DOMAIN UpperCaseLetters : UpperCaseLetters[i] = ch]
    ELSE ch

\* String.prototype.toLowerCase.
toLowerCase(s) == [i \in DOMAIN s |-> LowerChar(s[i])]

\* The white space String.prototype.trim removes (the characters of it the
\* model's names are made of).
WhiteSpace == {" ", "\t", "\n"}

\* String.prototype.trim.
RECURSIVE TrimLeft(_)
TrimLeft(s) ==
  IF s # <<>> /\ Head(s) \in WhiteSpace THEN TrimLeft(Tail(s)) ELSE s

RECURSIVE TrimRight(_)
TrimRight(s) ==
  IF s # <<>> /\ s[Len(s)] \in WhiteSpace
    THEN TrimRight(SubSeq(s, 1, Len(s) - 1))
    ELSE s

trim(s) == TrimRight(TrimLeft(s))

\* Array.prototype.join.
RECURSIVE join(_, _)
join(ss, sep) ==
  IF ss = <<>> THEN <<>>
  ELSE IF Len(ss) = 1 THEN Head(ss)
  ELSE Head(ss) \o sep \o join(Tail(ss), sep)

\* Array.prototype.indexOf, 1-based; 0 when x is not in s (-1 in the code).
indexOf(s, x) ==
  IF \E i \in DOMAIN s : s[i] = x
    THEN CHOOSE i \in DOMAIN s : s[i] = x /\ \A j \in 1..(i - 1) : s[j] # x
    ELSE 0

(***************************************************************************)
(* Values of the program.                                                  *)
(***************************************************************************)
\* A target name argument: null, undefined or a string.
NullName == [kind |-> "null", chars |-> <<>>]
UndefinedName == [kind |-> "undefined", chars |-> <<>>]
StringName(s) == [kind |-> "string", chars |-> s]

\* The resolvers argument: omitted, or an array of names.
Omitted == [given |-> FALSE, list |-> <<>>]
Given(list) == [given |-> TRUE, list |-> list]

Err(name, message) == [name |-> name, message |-> message]
NoError == Err("", <<>>)

Position(ra, dec, eq) == [rightAscension |-> ra, declination |-> dec, equinox |-> eq]
NoPosition == Position(0, 0, 0)

\* What a call's promise is settled with.
Unsettled == [kind |-> "none", position |-> NoPosition, error |-> NoError]
ResolvedNull == [kind |-> "null", position |-> NoPosition, error |-> NoError]
ResolvedPosition(p) == [kind |-> "position", position |-> p, error |-> NoError]
Rejected(e) == [kind |-> "error", position |-> NoPosition, error |-> e]

(***************************************************************************)
(* targetPosition: validation of the arguments.                            *)
(***************************************************************************)
DEFAULT_BASE_URL == "https://cdsweb.u-strasbg.fr/cgi-bin/nph-sesame/"

SUPPORTED_RESOLVERS ==
  << <<"n","e","d">>, <<"s","i","m","b","a","d">>, <<"v","i","z","i","e","r">> >>

\* The default value of the resolvers parameter.
DefaultResolvers ==
  << <<"S","i","m","b","a","d">>, <<"N","E","D">>, <<"V","i","z","i","e","R">> >>

\* resolversParam with the default used for an empty array too.
resolversParamOrEmpty(arg) ==
  IF arg.given /\ arg.list # <<>> THEN arg.list ELSE DefaultResolvers

\* The resolvers parameter: the default when the argument is omitted.
resolversParam(arg) == IF arg.given THEN arg.list ELSE DefaultResolvers

\* (targetName && targetName.trim()) || ""
trimmedTargetName(targetName) ==
  IF targetName.kind = "string" /\ targetName.chars # <<>>
    THEN trim(targetName.chars)
    ELSE <<>>

MissingNameError == Err("Error", Str("The target name is missing."))

IsUnsupported(resolver) == indexOf(SUPPORTED_RESOLVERS, toLowerCase(resolver)) = 0

\* unsupportedResolvers with the names as compared (in lower case), not as given.
unsupportedResolversLowerCased(resolvers) ==
  SelectSeq([i \in DOMAIN resolvers |-> toLowerCase(resolvers[i])], IsUnsupported)

unsupportedResolvers(resolvers) == SelectSeq(resolvers, IsUnsupported)

UnsupportedPhrase(n) == IF n # 1 THEN "s are" ELSE " is"

UnsupportedError(unsupported) ==
  Err("Error",
      <<"The following resolver", UnsupportedPhrase(Len(unsupported)), " not supported: ">>
      \o join(unsupported, Str(", "))
      \o Str(". The available resolvers are Simbad, NED and VizieR."))

\* lowerCaseResolvers without the conversion to lower case.
lowerCaseResolversAsGiven(resolvers) == resolvers

lowerCaseResolvers(resolvers) == [i \in DOMAIN resolvers |-> toLowerCase(resolvers[i])]

NoResolverError == Err("Error", Str("At least one resolver must be given."))

\* new Set(lowerCaseResolvers).size !== lowerCaseResolvers.length
UsedMoreThanOnce(lower) == Cardinality(Range(lower)) # Len(lower)

DuplicateError ==
  Err("Error", Str("A resolver may be used only once in the array of resolvers."))

\* ValidationError with the check of the target name made last.
ValidationErrorNameLast(targetName, resolvers) ==
  IF Len(unsupportedResolvers(resolvers)) > 0
    THEN <<UnsupportedError(unsupportedResolvers(resolvers))>>
  ELSE IF Len(lowerCaseResolvers(resolvers)) = 0 THEN <<NoResolverError>>
  ELSE IF UsedMoreThanOnce(lowerCaseResolvers(resolvers)) THEN <<DuplicateError>>
  ELSE IF trimmedTargetName(targetName) = <<>> THEN <<MissingNameError>>
  ELSE <<>>

\* The four checks, in the order of the code; the first that fails rejects.
\* The result is the error (an optional value).
ValidationError(targetName, resolvers) ==
  IF trimmedTargetName(targetName) = <<>> THEN <<MissingNameError>>
  ELSE IF Len(unsupportedResolvers(resolvers)) > 0
    THEN <<UnsupportedError(unsupportedResolvers(resolvers))>>
  ELSE IF Len(lowerCaseResolvers(resolvers)) = 0 THEN <<NoResolverError>>
  ELSE IF UsedMoreThanOnce(lowerCaseResolvers(resolvers)) THEN <<DuplicateError>>
  ELSE <<>>

(***************************************************************************)
(* targetPosition: the request URL.                                        *)
(***************************************************************************)
\* A lone surrogate (a UTF-16 code unit that is half of a pair).
LoneSurrogate == "\\uD800"

\* encodeURIComponent on one character.
EncodeChar(ch) ==
  CASE ch = " " -> "%20"
    [] ch = "\t" -> "%09"
    [] ch = "\n" -> "%0A"
    [] OTHER -> ch

\* encodeURIComponent: an optional value, absent when it throws a URIError
\* (the string has a lone surrogate).
encodeURIComponent(s) ==
  IF \E i \in DOMAIN s : s[i] = LoneSurrogate
    THEN <<>>
    ELSE << [i \in DOMAIN s |-> EncodeChar(s[i])] >>

URIError == Err("URIError", Str("URI malformed"))

\* The switch of the code: the letter of a resolver.
ResolverLetter(resolver) ==
  CASE resolver = <<"s","i","m","b","a","d">> -> Str("S")
    [] resolver = <<"n","e","d">> -> Str("N")
    [] resolver = <<"v","i","z","i","e","r">> -> Str("V")
    [] OTHER -> <<>>

\* resolverCode with the letters in reverse order.
resolverCodeReversed(lower) ==
  Flatten([i \in DOMAIN lower |-> ResolverLetter(lower[Len(lower) + 1 - i])])

resolverCode(lower) == Flatten([i \in DOMAIN lower |-> ResolverLetter(lower[i])])

\* RequestUrl with the default base URL, whatever setMirror has set.
RequestUrlDefaultBase(base, code, encodedTargetName) ==
  Str(DEFAULT_BASE_URL) \o Str("/-ox/") \o code \o Str("?") \o encodedTargetName

\* `${BASE_URL}/-ox/${resolverCode}?${encodedTargetName}`
RequestUrl(base, code, encodedTargetName) ==
  Str(base) \o Str("/-ox/") \o code \o Str("?") \o encodedTargetName


(***************************************************************************)
(* The reply of the service.                                               *)
(*                                                                         *)
(* A body is either plain text that is no XML document, or an XML document *)
(* given by what xml2js's parseString makes of it: whether it has the      *)
(* Sesame/Target structure, and the Resolver property of the first Target  *)
(* (absent, or an array of entries).  An entry has the properties jradeg   *)
(* and jdedeg, each absent (<<>>) or the array of the texts of its         *)
(* elements.                                                               *)
(***************************************************************************)
PlainBody(t) == [xml |-> FALSE, plain |-> t, hasTarget |-> FALSE, Resolver |-> <<>>]
XmlBody(hasTarget, resolver) ==
  [xml |-> TRUE, plain |-> "", hasTarget |-> hasTarget, Resolver |-> resolver]

Entry(ra, dec) == [jradeg |-> ra, jdedeg |-> dec]

FieldXml(open, field, close) ==
  Flatten([i \in DOMAIN field |-> Str(open) \o field[i] \o Str(close)])

EntryXml(e) ==
  Str("<Resolver>")
  \o FieldXml("<jradeg>", e.jradeg, "</jradeg>")
  \o FieldXml("<jdedeg>", e.jdedeg, "</jdedeg>")
  \o Str("</Resolver>")

\* The text of a body: what Response.text() is resolved with.
BodyText(body) ==
  IF ~body.xml THEN Str(body.plain)
  ELSE IF ~body.hasTarget THEN Str("<Other/>")
  ELSE Str("<Sesame><Target>")
       \o (IF body.Resolver = <<>> THEN <<>>
           ELSE Flatten([i \in DOMAIN body.Resolver[1] |-> EntryXml(body.Resolver[1][i])]))
       \o Str("</Target></Sesame>")

Response(ok, body) == [ok |-> ok, body |-> body]

(***************************************************************************)
(* targetPosition: the handling of the reply.                              *)
(***************************************************************************)
Digits == <<"0","1","2","3","4","5","6","7","8","9">>

IsDigit(ch) == \E i \in DOMAIN Digits : Digits[i] = ch

DigitValue(ch) == (CHOOSE i \in DOMAIN Digits : Digits[i] = ch) - 1

\* The value of the longest prefix of s made of digits, after the value acc
\* of the digits read so far.
RECURSIVE DigitsValue(_, _)
DigitsValue(s, acc) ==
  IF s # <<>> /\ IsDigit(Head(s))
    THEN DigitsValue(Tail(s), 10 * acc + DigitValue(Head(s)))
    ELSE acc

\* parseFloat of a string: leading white space is skipped, then an optional
\* sign and the longest run of digits are read; what follows is ignored.
\* An optional value: absent is NaN.  (The strings of the model hold no
\* fraction and no exponent.)
ParseFloatString(str) ==
  LET s == TrimLeft(str)
      signed == s # <<>> /\ Head(s) \in {"+", "-"}
      d == IF signed THEN Tail(s) ELSE s
  IN  IF d = <<>> \/ ~IsDigit(Head(d)) THEN <<>>
      ELSE IF signed /\ Head(s) = "-" THEN << 0 - DigitsValue(d, 0) >>
      ELSE << DigitsValue(d, 0) >>

\* parseFloat of a property of an entry: undefined gives NaN, an array is
\* first converted to a string (its elements joined by ",").
parseFloat(field) ==
  IF field = <<>> THEN <<>> ELSE ParseFloatString(join(field, Str(",")))

EQUINOX == 2000

\* ExtractTarget with the last entry read instead of the first.
ExtractTargetLastEntry(resolver) ==
  IF resolver = <<>> \/ Len(resolver[1]) = 0 THEN ResolvedNull
  ELSE LET last == resolver[1][Len(resolver[1])]
           ra == parseFloat(last.jradeg)
           dec == parseFloat(last.jdedeg)
       IN  IF ra # <<>> /\ dec # <<>>
             THEN ResolvedPosition(Position(ra[1], dec[1], EQUINOX))
             ELSE ResolvedNull

\* ExtractTarget with coordinates that are no numbers treated as an error.
ExtractTargetRejecting(resolver) ==
  IF resolver = <<>> \/ Len(resolver[1]) = 0 THEN ResolvedNull
  ELSE LET ra == parseFloat(resolver[1][1].jradeg)
           dec == parseFloat(resolver[1][1].jdedeg)
       IN  IF ra # <<>> /\ dec # <<>>
             THEN ResolvedPosition(Position(ra[1], dec[1], EQUINOX))
             ELSE Rejected(Err("Error", Str("The coordinates are no numbers.")))

\* The callback given to parseString, for a root that has Sesame.Target[0]:
\* what the promise is resolved with.
ExtractTarget(resolver) ==
  IF resolver = <<>> \/ Len(resolver[1]) = 0 THEN ResolvedNull
  ELSE LET ra == parseFloat(resolver[1][1].jradeg)
           dec == parseFloat(resolver[1][1].jdedeg)
       IN  IF ra # <<>> /\ dec # <<>>
             THEN ResolvedPosition(Position(ra[1], dec[1], EQUINOX))
             ELSE ResolvedNull

\* The error of the callback when root is undefined or has no Sesame.Target.
CallbackTypeError == Err("TypeError", Str("Cannot read property of undefined"))


(***************************************************************************)
(* The state: the base URL and the calls of targetPosition.                *)
(*                                                                         *)
(* A call is idle (not yet made), fetching (its GET is in flight),         *)
(* reading (the response is there, its text is being read), handling (the  *)
(* text is read, the handler of the reply is to run) or done (nothing more *)
(* is scheduled for it).  gets counts the GET requests of the call, url is *)
(* the URL given to fetch, transport the error fetch or text() failed      *)
(* with, response the response fetch was resolved with, parsed whether     *)
(* parseString was called, result what the promise is settled with.        *)
(***************************************************************************)
IdleCall ==
  [st |-> "idle", targetName |-> NullName, resolvers |-> Omitted, url |-> <<>>,
   gets |-> 0, transport |-> <<>>, response |-> <<>>, parsed |-> FALSE,
   result |-> Unsettled]

Init ==
  /\ BASE_URL = DEFAULT_BASE_URL
  /\ calls = [c \in Calls |-> IdleCall]

\* setMirror(url)
setMirror(url) ==
  /\ BASE_URL' = url
  /\ UNCHANGED calls

\* The synchronous part of targetPosition(targetName, resolvers), with base
\* the value of BASE_URL: the call after the executor of the promise has run.
Executor(targetName, arg, base) ==
  LET resolvers == resolversParam(arg)
      invalid == ValidationError(targetName, resolvers)
      encodedTargetName == encodeURIComponent(targetName.chars)
      called == [IdleCall EXCEPT !.targetName = targetName, !.resolvers = arg]
  IN  IF invalid # <<>>
        THEN [called EXCEPT !.st = "done", !.result = Rejected(invalid[1])]
      ELSE IF encodedTargetName = <<>>
        THEN [called EXCEPT !.st = "done", !.result = Rejected(URIError)]
      ELSE [called EXCEPT
              !.st = "fetching",
              !.gets = 1,
              !.url = RequestUrl(base, resolverCode(lowerCaseResolvers(resolvers)),
                                 encodedTargetName[1])]

\* targetPosition(targetName, resolvers), for a target name of names and a
\* resolvers argument of args
targetPosition(c, names, args) ==
  /\ calls[c].st = "idle"
  /\ \E targetName \in names, arg \in args :
       calls' = [calls EXCEPT ![c] = Executor(targetName, arg, BASE_URL)]
  /\ UNCHANGED BASE_URL

\* fetch(url) is rejected with an error of errors: .catch(reject)
FetchRejected(c, errors) ==
  /\ calls[c].st = "fetching"
  /\ \E err \in errors :
       calls' = [calls EXCEPT ![c].st = "done",
                              ![c].transport = <<err>>,
                              ![c].result = Rejected(err)]
  /\ UNCHANGED BASE_URL

\* fetch(url) is resolved with a response of responses: parseText calls
\* res.text()
FetchResolved(c, responses) ==
  /\ calls[c].st = "fetching"
  /\ \E res \in responses :
       calls' = [calls EXCEPT ![c].st = "reading", ![c].response = <<res>>]
  /\ UNCHANGED BASE_URL

\* res.text() is rejected with an error of errors: parseText rejects,
\* .catch(reject)
TextRejected(c, errors) ==
  /\ calls[c].st = "reading"
  /\ \E err \in errors :
       calls' = [calls EXCEPT ![c].st = "done",
                              ![c].transport = <<err>>,
                              ![c].result = Rejected(err)]
  /\ UNCHANGED BASE_URL

\* res.text() is resolved: parseText resolves with {text, ok}
TextResolved(c) ==
  /\ calls[c].st = "reading"
  /\ calls' = [calls EXCEPT ![c].st = "handling"]
  /\ UNCHANGED BASE_URL

\* What follows an error thrown by the callback of parseString, which is
\* xml2js's to decide: the error reaches .catch(reject), or it is lost and
\* the promise is never settled.
ThrowOutcomes == {"rejected", "lost"}

\* Handler without the check of the status of the response.
HandlerIgnoringStatus(call, outcome) ==
  LET res == call.response[1] IN
  IF ~res.body.xml \/ ~res.body.hasTarget
    THEN [call EXCEPT !.st = "done", !.parsed = TRUE,
                      !.result = IF outcome = "rejected"
                                   THEN Rejected(CallbackTypeError)
                                   ELSE Unsettled]
  ELSE [call EXCEPT !.st = "done", !.parsed = TRUE,
                    !.result = ExtractTarget(res.body.Resolver)]

\* Handler with the request made again after a status that is no success.
HandlerRetrying(call, outcome) ==
  LET res == call.response[1] IN
  IF ~res.ok
    THEN [call EXCEPT !.st = "fetching", !.gets = @ + 1, !.response = <<>>]
  ELSE IF ~res.body.xml \/ ~res.body.hasTarget
    THEN [call EXCEPT !.st = "done", !.parsed = TRUE,
                      !.result = IF outcome = "rejected"
                                   THEN Rejected(CallbackTypeError)
                                   ELSE Unsettled]
  ELSE [call EXCEPT !.st = "done", !.parsed = TRUE,
                    !.result = ExtractTarget(res.body.Resolver)]

\* The handler of {text, ok}, with outcome what follows an error thrown by
\* the callback of parseString: the call after the handler has run.
Handler(call, outcome) ==
  LET res == call.response[1] IN
  IF ~res.ok
    THEN [call EXCEPT !.st = "done", !.result = Rejected(Err("Error", BodyText(res.body)))]
  ELSE IF ~res.body.xml \/ ~res.body.hasTarget
    THEN [call EXCEPT !.st = "done", !.parsed = TRUE,
                      !.result = IF outcome = "rejected"
                                   THEN Rejected(CallbackTypeError)
                                   ELSE Unsettled]
  ELSE [call EXCEPT !.st = "done", !.parsed = TRUE,
                    !.result = ExtractTarget(res.body.Resolver)]

\* The handler of {text, ok} runs.
HandleReply(c) ==
  /\ calls[c].st = "handling"
  /\ \E outcome \in ThrowOutcomes :
       calls' = [calls EXCEPT ![c] = Handler(calls[c], outcome)]
  /\ UNCHANGED BASE_URL


(***************************************************************************)
(* The inputs.                                                             *)
(***************************************************************************)
Simbad == <<"S","i","m","b","a","d">>
simbad == <<"s","i","m","b","a","d">>
NED == <<"N","E","D">>
VizieR == <<"V","i","z","i","e","R">>
Xft56 == <<"X","f","t","5","6">>
A56tyu == <<"A","5","6","t","y","u">>

\* The resolver names of the inputs: supported ones in several spellings,
\* and the unsupported ones of the tests.
ResolverNames == {Simbad, simbad, NED, VizieR, Xft56, A56tyu}

AllArgs == {Omitted} \cup {Given(l) : l \in SeqsUpTo(ResolverNames, MaxResolvers)}

NameChars == {" ", "\t", "A", LoneSurrogate}

AllNames ==
  {NullName, UndefinedName} \cup {StringName(s) : s \in SeqsUpTo(NameChars, MaxNameLen)}

HARVARD_MIRROR == "https://vizier.cfa.harvard.edu/viz-bin/nph-sesame/"

Mirrors == {DEFAULT_BASE_URL, HARVARD_MIRROR}

NotHappy == "Sesame is not happy."

\* The errors fetch and text() fail with: the Error of the tests, and the
\* TypeError of a fetch that has no network.
SomeErrors == {Err("Error", Str(NotHappy)), Err("TypeError", Str("Failed to fetch"))}

SomeNames == {StringName(<<"A">>), StringName(<<" ">>), StringName(<<LoneSurrogate>>)}

SomeArgs == {Omitted, Given(<<>>), Given(<<Xft56>>), Given(<<Simbad, simbad>>)}

Zero == << <<"0">> >>

SomeResponses ==
  {Response(TRUE, XmlBody(TRUE, << <<Entry(Zero, Zero)>> >>)),
   Response(FALSE, PlainBody(NotHappy)),
   Response(TRUE, PlainBody(NotHappy))}

\* The values of a jradeg or jdedeg property: absent, not a number, and
\* numbers in and out of the range of a coordinate.
Fields ==
  {<<>>, << <<"x">> >>, Zero, << <<"-","5">> >>, << <<"4","0","0">> >>}

Entries == {Entry(ra, dec) : ra \in Fields, dec \in Fields}

AllBodies ==
  {PlainBody(NotHappy), PlainBody(""), XmlBody(FALSE, <<>>), XmlBody(TRUE, <<>>)}
  \cup {XmlBody(TRUE, <<l>>) : l \in SeqsUpTo(Entries, MaxEntries)}

AllResponses == {Response(ok, body) : ok \in BOOLEAN, body \in AllBodies}

(***************************************************************************)
(* Spec: concurrent calls and setMirror.                                   *)
(***************************************************************************)
Next ==
  \/ \E url \in Mirrors : setMirror(url)
  \/ \E c \in Calls : targetPosition(c, SomeNames, SomeArgs)
  \/ \E c \in Calls : FetchRejected(c, SomeErrors)
  \/ \E c \in Calls : FetchResolved(c, SomeResponses)
  \/ \E c \in Calls : TextRejected(c, SomeErrors)
  \/ \E c \in Calls : TextResolved(c)
  \/ \E c \in Calls : HandleReply(c)

Spec == Init /\ [][Next]_vars

(***************************************************************************)
(* SpecArgs: one call, with every target name and every resolvers argument *)
(* of the bounds.                                                          *)
(***************************************************************************)
NextArgs ==
  \/ targetPosition(1, AllNames, AllArgs)
  \/ FetchRejected(1, SomeErrors)
  \/ FetchResolved(1, SomeResponses)
  \/ TextRejected(1, SomeErrors)
  \/ TextResolved(1)
  \/ HandleReply(1)

SpecArgs == Init /\ [][NextArgs]_vars

(***************************************************************************)
(* SpecReply: one call, with every reply of the bounds.                    *)
(***************************************************************************)
NextReply ==
  \/ targetPosition(1, SomeNames, SomeArgs)
  \/ FetchRejected(1, SomeErrors)
  \/ FetchResolved(1, AllResponses)
  \/ TextRejected(1, SomeErrors)
  \/ TextResolved(1)
  \/ HandleReply(1)

SpecReply == Init /\ [][NextReply]_vars


(***************************************************************************)
(* The claims.  What a claim speaks of is stated here on its own terms,    *)
(* not with the operators that model the code.                             *)
(***************************************************************************)
\* The target name is null, undefined, empty or white space only.
IsBlank(targetName) ==
  \/ targetName.kind # "string"
  \/ \A i \in DOMAIN targetName.chars : targetName.chars[i] \in {" ", "\t", "\n"}

\* Two names are the same but for the case of their letters.
SameIgnoringCase(a, b) ==
  /\ Len(a) = Len(b)
  /\ \A i \in DOMAIN a : LowerChar(a[i]) = LowerChar(b[i])

SupportedName(r) ==
  \/ SameIgnoringCase(r, Simbad)
  \/ SameIgnoringCase(r, NED)
  \/ SameIgnoringCase(r, VizieR)

\* The resolver list of a call: the array given, or the default.
ListOf(call) ==
  IF call.resolvers.given THEN call.resolvers.list ELSE <<Simbad, NED, VizieR>>

HasUnsupported(list) == \E i \in DOMAIN list : ~SupportedName(list[i])

HasRepeated(list) ==
  \E i, j \in DOMAIN list : i < j /\ SameIgnoringCase(list[i], list[j])

\* The k-th (from 1) of the indices of the unsupported entries of list.
UnsupportedIndex(list, k) ==
  CHOOSE i \in DOMAIN list :
    /\ ~SupportedName(list[i])
    /\ Cardinality({j \in 1..i : ~SupportedName(list[j])}) = k

NumUnsupported(list) == Cardinality({i \in DOMAIN list : ~SupportedName(list[i])})

\* The unsupported entries of list as given, in the order of the list, with
\* ", " between them.
UnsupportedListed(list) ==
  Flatten([k \in 1..NumUnsupported(list) |->
             (IF k > 1 THEN <<", ">> ELSE <<>>) \o list[UnsupportedIndex(list, k)]])

RejectedWith(call, message) ==
  /\ call.st = "done"
  /\ call.result.kind = "error"
  /\ call.result.error.message = message

MissingNameText == <<"The target name is missing.">>
NoResolverText == <<"At least one resolver must be given.">>
OnlyOnceText == <<"A resolver may be used only once in the array of resolvers.">>

\* The call was rejected by one of the four checks of the arguments.
FailedValidation(call) ==
  /\ call.st = "done"
  /\ call.result.kind = "error"
  /\ call.gets = 0
  /\ \/ call.result.error.message \in {MissingNameText, NoResolverText, OnlyOnceText}
     \/ Head(call.result.error.message) = "The following resolver"

\* C1: a call with a target name that is null, undefined, empty or white
\* space only is rejected with the message that the target name is missing,
\* whatever the resolver list is, and issues no request.
C1_BlankNameRejected ==
  \A c \in Calls :
    (calls[c].st # "idle" /\ IsBlank(calls[c].targetName)) =>
      /\ RejectedWith(calls[c], MissingNameText)
      /\ calls[c].result.error.name = "Error"
      /\ calls[c].gets = 0

\* A white-space name with a resolver list that has an unsupported and a
\* repeated entry was rejected for the missing name.
C1_Witness ==
  \E c \in Calls :
    /\ calls[c].targetName.kind = "string"
    /\ calls[c].targetName.chars # <<>>
    /\ IsBlank(calls[c].targetName)
    /\ calls[c].resolvers.given
    /\ HasUnsupported(calls[c].resolvers.list)
    /\ HasRepeated(calls[c].resolvers.list)
    /\ RejectedWith(calls[c], MissingNameText)

\* C2: a call with a non-blank name and a resolver list with an entry that is
\* not simbad, ned or vizier (whatever the case of the letters) is rejected
\* with the message that lists exactly the unsupported entries, as given, in
\* the order of the list, with ", " between them, worded "resolver is" for
\* one and "resolvers are" for more; a repeated entry does not change this.
C2_UnsupportedListed ==
  \A c \in Calls :
    (calls[c].st # "idle" /\ ~IsBlank(calls[c].targetName)
       /\ HasUnsupported(ListOf(calls[c]))) =>
      /\ RejectedWith(calls[c],
           <<"The following resolver",
             IF NumUnsupported(ListOf(calls[c])) = 1 THEN " is" ELSE "s are",
             " not supported: ">>
           \o UnsupportedListed(ListOf(calls[c]))
           \o <<". The available resolvers are Simbad, NED and VizieR.">>)
      /\ calls[c].gets = 0

\* A list with a supported entry, two unsupported entries and a repetition
\* was rejected for its unsupported entries.
C2_Witness ==
  \E c \in Calls :
    /\ ~IsBlank(calls[c].targetName)
    /\ calls[c].resolvers.given
    /\ NumUnsupported(calls[c].resolvers.list) = 2
    /\ \E i \in DOMAIN calls[c].resolvers.list : SupportedName(calls[c].resolvers.list[i])
    /\ HasRepeated(calls[c].resolvers.list)
    /\ calls[c].st = "done"
    /\ calls[c].result.kind = "error"
    /\ calls[c].result.error.message[2] = "s are"

\* C3: a call with a non-blank name and an empty array of resolvers is
\* rejected with the message that at least one resolver must be given; a call
\* without the resolvers argument is not: it has the list Simbad, NED, VizieR.
C3_EmptyListRejected ==
  \A c \in Calls :
    (calls[c].st # "idle" /\ ~IsBlank(calls[c].targetName)) =>
      /\ (calls[c].resolvers.given /\ calls[c].resolvers.list = <<>>) =>
           /\ RejectedWith(calls[c], NoResolverText)
           /\ calls[c].gets = 0
      /\ ~calls[c].resolvers.given =>
           /\ ~FailedValidation(calls[c])
           /\ calls[c].url # <<>> => SubSeq(calls[c].url, 2, 6) = <<"/-ox/", "S", "N", "V", "?">>

\* An empty array was rejected for having no resolver.
C3_Witness ==
  \E c \in Calls :
    /\ ~IsBlank(calls[c].targetName)
    /\ calls[c].resolvers.given
    /\ calls[c].resolvers.list = <<>>
    /\ RejectedWith(calls[c], NoResolverText)

\* C4: a call with a non-blank name and a resolver list of supported names
\* only is rejected with the message that a resolver may be used only once
\* if and only if two entries are the same but for the case of their letters;
\* a non-empty such list without a repetition passes the checks.
C4_RepeatedRejected ==
  \A c \in Calls :
    (calls[c].st # "idle" /\ ~IsBlank(calls[c].targetName)
       /\ ~HasUnsupported(ListOf(calls[c]))) =>
      /\ HasRepeated(ListOf(calls[c])) <=> RejectedWith(calls[c], OnlyOnceText)
      /\ HasRepeated(ListOf(calls[c])) => calls[c].gets = 0
      /\ (ListOf(calls[c]) # <<>> /\ ~HasRepeated(ListOf(calls[c]))) =>
           ~FailedValidation(calls[c])

\* The list Simbad, NED, simbad was rejected for the repetition.
C4_Witness ==
  \E c \in Calls :
    /\ ~IsBlank(calls[c].targetName)
    /\ calls[c].resolvers = Given(<<Simbad, NED, simbad>>)
    /\ RejectedWith(calls[c], OnlyOnceText)

\* The part of a request URL between "/-ox/" and "?".
CodeSegment(url) ==
  SubSeq(url, 3, (CHOOSE q \in DOMAIN url : url[q] = "?" /\ \A k \in 1..(q - 1) : url[k] # "?") - 1)

LetterOf(r) ==
  IF SameIgnoringCase(r, Simbad) THEN "S"
  ELSE IF SameIgnoringCase(r, NED) THEN "N"
  ELSE IF SameIgnoringCase(r, VizieR) THEN "V"
  ELSE "?"

\* C5: the resolver code of the URL of a request has one letter for each
\* entry of the resolver list, in the order of the list: S for simbad, N for
\* ned, V for vizier, whatever the case; it has 1 to 3 letters, no letter
\* twice, and is SNV when the resolvers argument is omitted.
C5_ResolverCode ==
  \A c \in Calls :
    calls[c].url # <<>> =>
      LET code == CodeSegment(calls[c].url)
          list == ListOf(calls[c])
      IN  /\ calls[c].url[2] = "/-ox/"
          /\ Len(code) = Len(list)
          /\ \A i \in DOMAIN list : code[i] = LetterOf(list[i])
          /\ Len(code) \in 1..3
          /\ Range(code) \subseteq {"S", "N", "V"}
          /\ \A i, j \in DOMAIN code : i # j => code[i] # code[j]
          /\ ~calls[c].resolvers.given => code = <<"S", "N", "V">>

\* The list VizieR, simbad gave the code VS.
C5_Witness ==
  \E c \in Calls :
    /\ calls[c].resolvers = Given(<<VizieR, simbad>>)
    /\ calls[c].url # <<>>
    /\ CodeSegment(calls[c].url) = <<"V", "S">>


\* C6: the URL of the request of a call starts with the base URL that is
\* current when targetPosition is called (the one the last setMirror has
\* set), and a later step, setMirror included, does not change the URL of a
\* call that has been made.
C6_EndpointAtCallTime ==
  [][\A c \in Calls :
       /\ (calls[c].st = "idle" /\ calls'[c].gets > 0) =>
            /\ calls'[c].url # <<>>
            /\ calls'[c].url[1] = BASE_URL
       /\ calls[c].st # "idle" =>
            /\ calls'[c].url = calls[c].url
            /\ calls'[c].gets = calls[c].gets]_vars

\* Two requests are in flight, one made before a setMirror, to the default
\* base URL, and one made after it, to the mirror.
C6_Witness ==
  \E c, d \in Calls :
    /\ calls[c].st = "fetching"
    /\ calls[d].st = "fetching"
    /\ calls[c].url[1] = DEFAULT_BASE_URL
    /\ calls[d].url[1] = HARVARD_MIRROR
    /\ BASE_URL = HARVARD_MIRROR

\* The response of the call has a status that is no success.
AnsweredNotOk(call) == call.response # <<>> /\ ~call.response[1].ok

\* The response of the call has a success status and its text was read and
\* handled.
HandledOk(call) ==
  /\ call.response # <<>>
  /\ call.response[1].ok
  /\ call.transport = <<>>
  /\ call.st = "done"

\* C7: a call whose response has a status that is no success is never
\* fulfilled, with a position or with null, and its body is not parsed; once
\* the text of the body is read, the call is rejected with an Error whose
\* message is that text.
C7_NotOkRejected ==
  \A c \in Calls :
    AnsweredNotOk(calls[c]) =>
      /\ calls[c].result.kind \notin {"position", "null"}
      /\ ~calls[c].parsed
      /\ (calls[c].st = "done" /\ calls[c].transport = <<>>) =>
           /\ calls[c].result.kind = "error"
           /\ calls[c].result.error.name = "Error"
           /\ calls[c].result.error.message = BodyText(calls[c].response[1].body)

\* A response without success whose body is a well-formed reply with a
\* position was rejected with the text of the body.
C7_Witness ==
  \E c \in Calls :
    /\ AnsweredNotOk(calls[c])
    /\ calls[c].response[1].body = XmlBody(TRUE, << <<Entry(Zero, Zero)>> >>)
    /\ calls[c].st = "done"
    /\ calls[c].transport = <<>>
    /\ calls[c].result.kind = "error"
    /\ Head(calls[c].result.error.message) = "<Sesame><Target>"

\* fetch failed for the call: there is no response.
TransportFailed(call) ==
  call.st = "done" /\ call.response = <<>> /\ call.transport # <<>>

\* The call was rejected for the status of its response.
StatusFailed(call) ==
  AnsweredNotOk(call) /\ call.st = "done" /\ call.transport = <<>>

\* C8: a call whose fetch fails is rejected with the error of the transport,
\* and what it is rejected with differs from what a call is rejected with for
\* a status that is no success.
C8_TransportFailureDistinct ==
  \A c \in Calls :
    TransportFailed(calls[c]) =>
      /\ calls[c].result = Rejected(calls[c].transport[1])
      /\ \A d \in Calls : StatusFailed(calls[d]) => calls[d].result # calls[c].result

\* A field is the text of a whole number, with or without a sign.
IsNumberText(field) ==
  /\ Len(field) = 1
  /\ LET t == field[1]
         d == IF t # <<>> /\ Head(t) \in {"+", "-"} THEN Tail(t) ELSE t
     IN  d # <<>> /\ \A i \in DOMAIN d : IsDigit(d[i])

\* The number a field that is the text of a whole number stands for.
RECURSIVE Power10(_)
Power10(n) == IF n = 0 THEN 1 ELSE 10 * Power10(n - 1)

NumberOf(field) ==
  LET t == field[1]
      negative == Head(t) = "-"
      d == IF Head(t) \in {"+", "-"} THEN Tail(t) ELSE t
      \* the sum of the first n digits, each with its weight
      magnitude[n \in 0..Len(d)] ==
        IF n = 0 THEN 0 ELSE magnitude[n - 1] + DigitValue(d[n]) * Power10(Len(d) - n)
  IN  IF negative THEN 0 - magnitude[Len(d)] ELSE magnitude[Len(d)]

\* A field is absent, or its text does not start with a number.
NoNumber(field) ==
  \/ field = <<>>
  \/ /\ Len(field) = 1
     /\ LET t == field[1]
            d == IF t # <<>> /\ Head(t) \in {"+", "-"} THEN Tail(t) ELSE t
        IN  d = <<>> \/ ~IsDigit(Head(d))

\* The Resolver entries of the reply of a call (none when absent).
EntriesOf(call) ==
  IF call.response[1].body.Resolver = <<>> THEN <<>>
  ELSE call.response[1].body.Resolver[1]

HasTarget(call) == call.response[1].body.xml /\ call.response[1].body.hasTarget

C10_FirstEntryPosition ==
  \A c \in Calls :
    (HandledOk(calls[c]) /\ HasTarget(calls[c])
       /\ EntriesOf(calls[c]) # <<>>
       /\ IsNumberText(EntriesOf(calls[c])[1].jradeg)
       /\ IsNumberText(EntriesOf(calls[c])[1].jdedeg)) =>
      /\ calls[c].result.kind = "position"
      /\ calls[c].result.position.rightAscension = NumberOf(EntriesOf(calls[c])[1].jradeg)
      /\ calls[c].result.position.declination = NumberOf(EntriesOf(calls[c])[1].jdedeg)
      /\ calls[c].result.position.equinox = 2000

\* A reply with two entries, the second with other coordinates, gave the
\* position of the first.
C10_Witness ==
  \E c \in Calls :
    /\ HandledOk(calls[c])
    /\ HasTarget(calls[c])
    /\ Len(EntriesOf(calls[c])) = 2
    /\ EntriesOf(calls[c])[1] = Entry(<< <<"-","5">> >>, << <<"4","0","0">> >>)
    /\ EntriesOf(calls[c])[2] = Entry(Zero, << <<"x">> >>)
    /\ calls[c].result = ResolvedPosition(Position(-5, 400, 2000))


\* One of the four checks of the arguments fails for the call.
ArgumentsInvalid(call) ==
  \/ IsBlank(call.targetName)
  \/ HasUnsupported(ListOf(call))
  \/ ListOf(call) = <<>>
  \/ HasRepeated(ListOf(call))

\* The target name of the call cannot be percent-encoded.
NotEncodable(call) ==
  \E i \in DOMAIN call.targetName.chars : call.targetName.chars[i] = "\\uD800"

\* C11, as stated: a call issues no GET request when one of the four checks
\* of its arguments fails and exactly one when they pass, whatever happens to
\* the request afterwards and whatever other calls do.
C11_OneRequest ==
  \A c \in Calls :
    calls[c].st # "idle" =>
      calls[c].gets = IF ArgumentsInvalid(calls[c]) THEN 0 ELSE 1

\* C11, amended: a call issues no GET request when one of the four checks of
\* its arguments fails or when its target name cannot be percent-encoded (it
\* has a lone surrogate, and the call is rejected with the URIError), and
\* exactly one otherwise; the number stays what it is after a transport
\* failure, a status that is no success, a null result or any other outcome,
\* also with other calls running.
C11_OneRequestIfEncodable ==
  \A c \in Calls :
    /\ calls[c].st = "idle" => calls[c].gets = 0
    /\ calls[c].st # "idle" =>
         calls[c].gets =
           IF ArgumentsInvalid(calls[c]) \/ NotEncodable(calls[c]) THEN 0 ELSE 1

\* Two calls have ended, one after a transport failure and one after a status
\* that is no success, each with its one request.
C11_Witness ==
  \E c, d \in Calls :
    /\ TransportFailed(calls[c])
    /\ calls[c].gets = 1
    /\ StatusFailed(calls[d])
    /\ calls[d].gets = 1


\* C12: the position a call is fulfilled with has a right ascension between
\* 0 and 360 degrees and a declination between -90 and 90 degrees.
C12_PositionInRange ==
  \A c \in Calls :
    calls[c].result.kind = "position" =>
      /\ calls[c].result.position.rightAscension \in 0..360
      /\ calls[c].result.position.declination \in -90..90


====
